---- MODULE Spec2Model ----
(***************************************************************************)
(* Model of WORKPLAN2024_NEW:                                              *)
(*   .github/workflows/generate_2024_data.py  (calendar merge pipeline)    *)
(*   scripts/generate_2024_from_pdfs.py       (per-month template mode)    *)
(*                                                                         *)
(* Text is modelled as a sequence of one-character strings, so that        *)
(* formatting, parsing, trimming and lower-casing are computed and not     *)
(* assumed.  A Python value is a record tagged by the field k:             *)
(*   [k |-> "str", s |-> text]      str                                    *)
(*   [k |-> "date", y, m, d]        datetime.date                          *)
(*   [k |-> "nat"]                  pandas NaT                             *)
(*   [k |-> "nan"]                  float NaN (missing value of a frame)   *)
(*   [k |-> "none"]                 None                                   *)
(***************************************************************************)
EXTENDS Integers, Sequences, FiniteSets, TLC

VARIABLES
    pc,            \* position of generate_2024_data.main
    csv,           \* data_2024/"report (29).csv": [columns, rows]
    pdfdir,        \* data_2024/*.pdf seen by parse_pdfs: file name -> pages
    outdir,        \* output_2024 as seen by generate_2024_data: name -> sheet
    flights,       \* result of parse_csv
    codes,         \* result of parse_pdfs
    consolidated,  \* result of build_consolidated (a DataFrame)
    tracefile,     \* output_2024/TRACE_2024.md
    pc2,           \* position of generate_2024_from_pdfs.main
    pdf_files,     \* sorted glob of data_2024/*_2024.pdf
    docs,          \* content of each monthly document: name -> pages
    template_dir,  \* examples_2023_split: file name -> sheet
    output_dir,    \* output_2024 as seen by generate_2024_from_pdfs
    idx,           \* main: index of the next pdf of pdf_files
    created,       \* main: the list created
    reported,      \* main: pdfs whose processing printed "Error processing"
    summary,       \* main: the count printed at line 150
    w_template,    \* write_df_into_workbook: the workbook before the call
    w_sheet,       \* write_df_into_workbook: the workbook
    w_df,          \* write_df_into_workbook: argument df
    w_row,         \* write_df_into_workbook: argument start_row
    w_col,         \* write_df_into_workbook: argument start_col
    w_pc           \* write_df_into_workbook: called or not

dataVars  == <<pc, csv, pdfdir, outdir, flights, codes, consolidated, tracefile>>
monthVars == <<pc2, pdf_files, docs, template_dir, output_dir, idx, created, reported,
               summary>>
writeVars == <<w_template, w_sheet, w_df, w_row, w_col, w_pc>>
vars      == <<dataVars, monthVars, writeVars>>

----------------------------------------------------------------------------
(* Generic helpers *)

Range(s) == {s[i] : i \in DOMAIN s}

Max(a, b) == IF a >= b THEN a ELSE b

Min(a, b) == IF a <= b THEN a ELSE b

SetMax(S) == CHOOSE x \in S : \A y \in S : y <= x

\* the function f as a table, and the sequence s as a tuple: the same value,
\* with every element computed once
Fn(f) == f @@ <<>>

Tuple(s) == <<>> \o s

IndexOf(s, x) == CHOOSE i \in DOMAIN s : s[i] = x /\ \A j \in 1..(i - 1) : s[j] # x

----------------------------------------------------------------------------
(* Python values *)

Str(t)   == [k |-> "str", s |-> t]
NaN      == [k |-> "nan"]
None     == [k |-> "none"]
NaT      == [k |-> "nat"]
Date(y, m, d) == [k |-> "date", y |-> y, m |-> m, d |-> d]

\* the outcome of a call that raises
Raise(exc) == [k |-> "raise", exc |-> exc]

IsStr(v)  == v.k = "str"
IsDate(v) == v.k = "date"
\* pd.notnull / pd.isna
IsNull(v) == v.k \in {"nan", "none", "nat"}

----------------------------------------------------------------------------
(* Text *)

UPPER == <<"A","B","C","D","E","F","G","H","I","J","K","L","M",
           "N","O","P","Q","R","S","T","U","V","W","X","Y","Z">>
LOWER == <<"a","b","c","d","e","f","g","h","i","j","k","l","m",
           "n","o","p","q","r","s","t","u","v","w","x","y","z">>
DIGITS == <<"0","1","2","3","4","5","6","7","8","9">>

LowerChar(ch) == IF \E i \in DOMAIN UPPER : UPPER[i] = ch
                 THEN LOWER[CHOOSE i \in DOMAIN UPPER : UPPER[i] = ch]
                 ELSE ch

\* str.lower
Lower(t) == [i \in DOMAIN t |-> LowerChar(t[i])]

\* needle in t
Contains(t, needle) ==
    \E i \in 1..(Len(t) - Len(needle) + 1) : SubSeq(t, i, i + Len(needle) - 1) = needle

\* str.endswith
EndsWith(t, suffix) ==
    /\ Len(t) >= Len(suffix)
    /\ SubSeq(t, Len(t) - Len(suffix) + 1, Len(t)) = suffix

IsSpace(ch) == ch = " "

RECURSIVE LStrip(_)
LStrip(t) == IF t # <<>> /\ IsSpace(Head(t)) THEN LStrip(Tail(t)) ELSE t

RECURSIVE RStrip(_)
RStrip(t) == IF t # <<>> /\ IsSpace(t[Len(t)]) THEN RStrip(SubSeq(t, 1, Len(t) - 1)) ELSE t

\* str.strip
Strip(t) == RStrip(LStrip(t))

IsDigit(ch) == \E i \in DOMAIN DIGITS : DIGITS[i] = ch

DigitVal(ch) == (CHOOSE i \in DOMAIN DIGITS : DIGITS[i] = ch) - 1

AllDigits(t) == \A i \in DOMAIN t : IsDigit(t[i])

RECURSIVE ToInt(_)
\* int() of a text of digits
ToInt(t) == IF t = <<>> THEN 0 ELSE 10 * ToInt(SubSeq(t, 1, Len(t) - 1)) + DigitVal(t[Len(t)])

RECURSIVE Pad(_, _)
\* n printed in decimal, zero-padded to w digits (%Y is w = 4, %m and %d are w = 2)
Pad(n, w) == IF w = 0 THEN <<>> ELSE Pad(n \div 10, w - 1) \o <<DIGITS[(n % 10) + 1]>>

S_Date      == <<"D","a","t","e">>
S_Type      == <<"T","y","p","e">>
S_date      == <<"d","a","t","e">>
S_Volo      == <<"V","o","l","o">>
S_OFF_auto  == <<"O","F","F"," ","(","a","u","t","o",")">>
S_xlsx      == <<".","x","l","s","x">>

----------------------------------------------------------------------------
(* datetime.date arithmetic, as CPython's datetime computes it *)

_is_leap(y) == y % 4 = 0 /\ (y % 100 # 0 \/ y % 400 = 0)

_DAYS_IN_MONTH == <<31, 28, 31, 30, 31, 30, 31, 31, 30, 31, 30, 31>>

_days_in_month(y, m) == IF m = 2 /\ _is_leap(y) THEN 29 ELSE _DAYS_IN_MONTH[m]

_days_before_year(y) ==
    LET p == y - 1 IN p * 365 + (p \div 4) - (p \div 100) + (p \div 400)

RECURSIVE _days_before_month(_, _)
_days_before_month(y, m) ==
    IF m = 1 THEN 0 ELSE _days_before_month(y, m - 1) + _days_in_month(y, m - 1)

\* date.toordinal
_ymd2ord(y, m, d) == _days_before_year(y) + _days_before_month(y, m) + d

_DI400Y == _days_before_year(401)
_DI100Y == _days_before_year(101)
_DI4Y   == _days_before_year(5)

\* date.fromordinal
_ord2ymd(ordinal) ==
    LET n0   == ordinal - 1
        n400 == n0 \div _DI400Y
        na   == n0 % _DI400Y
        n100 == na \div _DI100Y
        nb   == na % _DI100Y
        n4   == nb \div _DI4Y
        nc   == nb % _DI4Y
        n1   == nc \div 365
        n    == nc % 365
        year == n400 * 400 + 1 + n100 * 100 + n4 * 4 + n1
        month0 == (n + 50) \div 32
        prec0  == _days_before_month(year, month0)
        month  == IF prec0 > n THEN month0 - 1 ELSE month0
        preceding == IF prec0 > n THEN prec0 - _days_in_month(year, month0 - 1) ELSE prec0
    IN IF n1 = 4 \/ n100 = 4 THEN Date(year - 1, 12, 31)
       ELSE Date(year, month, n - preceding + 1)

\* a valid datetime.date(y, m, d)
ValidYmd(y, m, d) == y >= 1 /\ m \in 1..12 /\ d >= 1 /\ d <= _days_in_month(y, m)

\* date + datetime.timedelta(days=n)
AddDays(dt, n) == _ord2ymd(_ymd2ord(dt.y, dt.m, dt.d) + n)

\* (b - a).days
DaysBetween(a, b) == _ymd2ord(b.y, b.m, b.d) - _ymd2ord(a.y, a.m, a.d)

\* day.strftime("%Y-%m-%d")
strftime(dt) == Pad(dt.y, 4) \o <<"-">> \o Pad(dt.m, 2) \o <<"-">> \o Pad(dt.d, 2)

\* datetime.datetime.strptime(v, "%Y-%m-%d").date(): "TypeError" for a value
\* that is no str, "ValueError" for a text that does not match the format
strptime(v) ==
    IF ~IsStr(v) THEN Raise("TypeError")
    ELSE LET t == v.s IN
         IF /\ Len(t) = 10
            /\ t[5] = "-" /\ t[8] = "-"
            /\ AllDigits(SubSeq(t, 1, 4)) /\ AllDigits(SubSeq(t, 6, 7))
            /\ AllDigits(SubSeq(t, 9, 10))
            /\ ValidYmd(ToInt(SubSeq(t, 1, 4)), ToInt(SubSeq(t, 6, 7)), ToInt(SubSeq(t, 9, 10)))
         THEN Date(ToInt(SubSeq(t, 1, 4)), ToInt(SubSeq(t, 6, 7)), ToInt(SubSeq(t, 9, 10)))
         ELSE Raise("ValueError")

\* pd.to_datetime(v, dayfirst=True, errors='coerce') followed by .date(), on
\* the texts DD/MM/YYYY; any other value is coerced to NaT
to_datetime(v) ==
    IF ~IsStr(v) THEN NaT
    ELSE LET t == v.s IN
         IF /\ Len(t) = 10
            /\ t[3] = "/" /\ t[6] = "/"
            /\ AllDigits(SubSeq(t, 1, 2)) /\ AllDigits(SubSeq(t, 4, 5))
            /\ AllDigits(SubSeq(t, 7, 10))
            /\ ValidYmd(ToInt(SubSeq(t, 7, 10)), ToInt(SubSeq(t, 4, 5)), ToInt(SubSeq(t, 1, 2)))
         THEN Date(ToInt(SubSeq(t, 7, 10)), ToInt(SubSeq(t, 4, 5)), ToInt(SubSeq(t, 1, 2)))
         ELSE NaT

----------------------------------------------------------------------------
(* generate_2024_data.py: constants *)

PDF_MONTHS == <<
    <<"G","E","N","N","A","I","O","_","2","0","2","4",".","p","d","f">>,
    <<"F","E","B","B","R","A","I","O","_","2","0","2","4",".","p","d","f">>,
    <<"M","A","R","Z","O","_","2","0","2","4",".","p","d","f">>,
    <<"A","P","R","I","L","E","_","2","0","2","4",".","p","d","f">>,
    <<"M","A","G","G","I","O","_","2","0","2","4",".","p","d","f">>,
    <<"G","I","U","G","N","O","_","2","0","2","4",".","p","d","f">>,
    <<"L","U","G","L","I","O","_","2","0","2","4",".","p","d","f">>,
    <<"A","G","O","S","T","O","_","2","0","2","4",".","p","d","f">>,
    <<"S","E","T","T","E","M","B","R","E","_","2","0","2","4",".","p","d","f">>,
    <<"O","T","T","O","B","R","E","_","2","0","2","4",".","p","d","f">>,
    <<"N","O","V","E","M","B","R","E","_","2","0","2","4",".","p","d","f">>,
    <<"D","I","C","E","M","B","R","E","_","2","0","2","4",".","p","d","f">>
>>

\* the year build_consolidated passes to date_range
TargetYear == 2024

\* a file that does not exist
NoFile == [exists |-> FALSE]

----------------------------------------------------------------------------
(* generate_2024_data.py: date_range *)

RECURSIVE DateRangeLoop(_, _, _)
\* lines 19-20: the values yielded for n in range(lo, hi), in order (the
\* range is halved to keep the evaluation shallow)
DateRangeLoop(start, lo, hi) ==
    IF lo >= hi THEN <<>>
    ELSE IF hi = lo + 1 THEN <<AddDays(start, lo)>>
    ELSE DateRangeLoop(start, lo, (lo + hi) \div 2)
           \o DateRangeLoop(start, (lo + hi) \div 2, hi)

\* date_range with range((end - start).days): the last day is not yielded
date_range_short(year) ==
    LET start == Date(year, 1, 1)
        end   == Date(year, 12, 31)
    IN DateRangeLoop(start, 0, DaysBetween(start, end))

\* the sequence of the values the generator yields
date_range(year) ==
    LET start == Date(year, 1, 1)
        end   == Date(year, 12, 31)
    IN DateRangeLoop(start, 0, DaysBetween(start, end) + 1)

----------------------------------------------------------------------------
(* generate_2024_data.py: parse_csv *)

\* pd.read_csv: an empty field is read as NaN
ReadCell(t) == IF t = <<>> THEN NaN ELSE Str(t)

\* next((c for c in df.columns if "date" in c.lower()), df.columns[0])
date_col(columns) ==
    IF \E i \in DOMAIN columns : Contains(Lower(columns[i]), S_date)
    THEN columns[CHOOSE i \in DOMAIN columns :
                    /\ Contains(Lower(columns[i]), S_date)
                    /\ \A j \in 1..(i - 1) : ~Contains(Lower(columns[j]), S_date)]
    ELSE columns[1]

\* the columns of df after df['Date'] = ...
FrameColumns(columns) ==
    IF S_Date \in Range(columns) THEN columns ELSE Append(columns, S_Date)

\* row r of df after df['Date'] = ...: a Series [index, data]
FrameRow(c, r) ==
    LET dc == IndexOf(c.columns, date_col(c.columns))
        parsed == to_datetime(ReadCell(c.rows[r][dc]))
        cols == FrameColumns(c.columns)
    IN [index |-> cols,
        data  |-> Fn([col \in Range(cols) |->
                        IF col = S_Date THEN parsed
                        ELSE ReadCell(c.rows[r][IndexOf(c.columns, col)])])]

\* {row['Date']: row for _, row in df.iterrows() if pd.notnull(row['Date'])}
parse_csv(c) ==
    LET kept == {r \in DOMAIN c.rows : ~IsNull(FrameRow(c, r).data[S_Date])}
        keys == {FrameRow(c, r).data[S_Date] : r \in kept}
    IN Fn([day \in keys |->
             FrameRow(c, SetMax({r \in kept : FrameRow(c, r).data[S_Date] = day}))])

----------------------------------------------------------------------------
(* generate_2024_data.py: parse_pdfs *)

\* Python truth value of a table cell (None or a str) or of a parsed date
Truthy(v) ==
    CASE v.k = "none" -> FALSE
      [] v.k = "str"  -> v.s # <<>>
      [] OTHER        -> TRUE

\* code_by_date.setdefault(dt, code): the first code of a date is kept
DictSet_KeepFirst(dict, key, val) == dict @@ (key :> val)

\* code_by_date[dt] = code
DictSet(dict, key, val) == (key :> val) @@ dict

\* lines 39-46: the body of "for row in table"
VisitRow(code_by_date, row) ==
    IF row = <<>> \/ ~Truthy(row[1]) THEN code_by_date
    ELSE LET dt   == to_datetime(row[1])
             code == IF Len(row) > 1 /\ Truthy(row[2]) THEN Strip(row[2].s) ELSE <<>>
         IN IF Truthy(dt) /\ code # <<>>
            THEN DictSet(code_by_date, dt, code)
            ELSE code_by_date

RECURSIVE VisitRows(_, _, _)
\* lines 38-46 from row i of the table on
VisitRows(code_by_date, table, i) ==
    IF i > Len(table) THEN code_by_date
    ELSE VisitRows(VisitRow(code_by_date, table[i]), table, i + 1)

\* page.extract_table(): None, or the rows of the page's table
Table(rows) == [k |-> "table", rows |-> rows]

\* lines 36-46: a page whose extract_table() is None or empty is skipped
VisitPage(code_by_date, table) ==
    IF table.k = "none" \/ table.rows = <<>> THEN code_by_date
    ELSE VisitRows(code_by_date, table.rows, 1)

RECURSIVE VisitPages(_, _, _)
VisitPages(code_by_date, pages, i) ==
    IF i > Len(pages) THEN code_by_date
    ELSE VisitPages(VisitPage(code_by_date, pages[i]), pages, i + 1)

RECURSIVE VisitFiles(_, _, _)
\* lines 31-46 from PDF_MONTHS[i] on
VisitFiles(code_by_date, dir, i) ==
    IF i > Len(PDF_MONTHS) THEN code_by_date
    ELSE IF PDF_MONTHS[i] \notin DOMAIN dir
         THEN VisitFiles(code_by_date, dir, i + 1)
         ELSE VisitFiles(VisitPages(code_by_date, dir[PDF_MONTHS[i]], 1), dir, i + 1)

parse_pdfs(dir) == VisitFiles(<<>>, dir, 1)

----------------------------------------------------------------------------
(* generate_2024_data.py: build_consolidated *)

\* the entry of one day without the elif branch of lines 60-61: a day with a
\* duty code gets the default label
Entry_NoCodes(fl, cd, day) ==
    LET iso == Str(strftime(day)) IN
    IF day \in DOMAIN fl
    THEN LET row   == fl[day]
             added == SelectSeq(row.index, LAMBDA c : c \notin {S_Date, S_Type})
         IN [keys |-> <<S_Date, S_Type>> \o added,
             vals |-> row.data @@ (S_Date :> iso) @@ (S_Type :> Str(S_Volo))]
    ELSE [keys |-> <<S_Date, S_Type>>,
          vals |-> (S_Date :> iso) @@ (S_Type :> Str(S_OFF_auto))]

\* lines 52-63: the dict entry of one day, as [keys, vals]; keys in
\* insertion order
Entry(fl, cd, day) ==
    LET iso == Str(strftime(day)) IN
    IF day \in DOMAIN fl
    THEN LET row   == fl[day]
             added == SelectSeq(row.index, LAMBDA c : c \notin {S_Date, S_Type})
         IN [keys |-> <<S_Date, S_Type>> \o added,
             vals |-> row.data @@ (S_Date :> iso) @@ (S_Type :> Str(S_Volo))]
    ELSE IF day \in DOMAIN cd
    THEN [keys |-> <<S_Date, S_Type>>,
          vals |-> (S_Date :> iso) @@ (S_Type :> Str(cd[day]))]
    ELSE [keys |-> <<S_Date, S_Type>>,
          vals |-> (S_Date :> iso) @@ (S_Type :> Str(S_OFF_auto))]

RECURSIVE UnionKeys(_, _, _)
\* the columns pd.DataFrame gives a list of dicts: the keys of
\* entries[lo..hi] in order of first appearance
UnionKeys(entries, lo, hi) ==
    IF lo > hi THEN <<>>
    ELSE IF lo = hi THEN entries[lo].keys
    ELSE LET left  == UnionKeys(entries, lo, (lo + hi) \div 2)
             right == UnionKeys(entries, ((lo + hi) \div 2) + 1, hi)
         IN left \o SelectSeq(right, LAMBDA c : c \notin Range(left))

\* pd.DataFrame(list of dicts): a missing key is NaN
DataFrame(entries) ==
    LET cols == UnionKeys(entries, 1, Len(entries))
    IN [columns |-> cols,
        rows    |-> Tuple([i \in DOMAIN entries |->
                       Fn([c \in Range(cols) |->
                          IF c \in DOMAIN entries[i].vals THEN entries[i].vals[c] ELSE NaN])])]

RECURSIVE BuildLoop(_, _, _, _, _)
\* lines 51-64: the entries appended for days[lo..hi], in order
BuildLoop(fl, cd, days, lo, hi) ==
    IF lo > hi THEN <<>>
    ELSE IF lo = hi THEN <<Entry(fl, cd, days[lo])>>
    ELSE BuildLoop(fl, cd, days, lo, (lo + hi) \div 2)
           \o BuildLoop(fl, cd, days, ((lo + hi) \div 2) + 1, hi)

build_consolidated(fl, cd) ==
    LET days == date_range(TargetYear)
    IN DataFrame(BuildLoop(fl, cd, days, 1, Len(days)))

----------------------------------------------------------------------------
(* Worksheets: a function from the coordinates <<row, column>> of the cells
   that exist to their values *)

\* ws.max_column
max_column(sheet) ==
    IF DOMAIN sheet = {} THEN 1 ELSE SetMax({p[2] : p \in DOMAIN sheet})

\* ws.cell(row=r, column=c).value
CellValue(sheet, r, c) == IF <<r, c>> \in DOMAIN sheet THEN sheet[<<r, c>>] ELSE None

----------------------------------------------------------------------------
(* generate_2024_data.py: overwrite_excel_files *)

\* lines 71-79 with row=i + 1 in place of row=i + 2: the first entry lands on
\* the header row
OverwriteSheet_FromHeader(sheet, df) ==
    LET header  == [c \in 1..max_column(sheet) |-> CellValue(sheet, 1, c)]
        written == {<<i, j>> : i \in DOMAIN df.rows,
                               j \in 1..Min(Len(df.columns), Len(header))}
        touched == {<<1, c>> : c \in DOMAIN header}
    IN Fn([p \in (DOMAIN sheet) \cup touched \cup written |->
             IF p \in written THEN df.rows[p[1]][df.columns[p[2]]]
             ELSE CellValue(sheet, p[1], p[2])])

\* lines 71-79 on one workbook
OverwriteSheet(sheet, df) ==
    LET header  == [c \in 1..max_column(sheet) |-> CellValue(sheet, 1, c)]
        written == {<<i + 1, j>> : i \in DOMAIN df.rows,
                                   j \in 1..Min(Len(df.columns), Len(header))}
        touched == {<<1, c>> : c \in DOMAIN header}
    IN Fn([p \in (DOMAIN sheet) \cup touched \cup written |->
             IF p \in written THEN df.rows[p[1] - 1][df.columns[p[2]]]
             ELSE CellValue(sheet, p[1], p[2])])

\* f.lower().endswith('.xlsx')
IsExcelName(f) == EndsWith(Lower(f), S_xlsx)

overwrite_excel_files(df, dir) ==
    Fn([f \in DOMAIN dir |-> IF IsExcelName(f) THEN OverwriteSheet(dir[f], df) ELSE dir[f]])

----------------------------------------------------------------------------
(* generate_2024_data.py: generate_trace_md *)

RECURSIVE ParsedDates(_, _, _)
\* line 84 on the rows lo..hi, in order: the date of each row, or what
\* strptime raises
ParsedDates(df, lo, hi) ==
    IF lo > hi THEN <<>>
    ELSE IF lo = hi THEN <<strptime(df.rows[lo][S_Date])>>
    ELSE ParsedDates(df, lo, (lo + hi) \div 2)
           \o ParsedDates(df, ((lo + hi) \div 2) + 1, hi)

\* lines 83-85 raise when strptime raises on some row
TraceRaises(df) ==
    \E i \in DOMAIN df.rows : strptime(df.rows[i][S_Date]).k = "raise"

\* months[m]: the indexes of the rows of month m, in row order
MonthRows(dts, m) ==
    SelectSeq([i \in DOMAIN dts |-> i], LAMBDA i : dts[i].m = m)

RECURSIVE Tally(_, _, _, _)
\* lines 89-94 over the rows idxs[i..]: <<vo, pdf, auto_off>>
Tally(df, idxs, i, acc) ==
    IF i > Len(idxs) THEN acc
    ELSE LET t == df.rows[idxs[i]][S_Type]
         IN Tally(df, idxs, i + 1,
                  IF t = Str(S_Volo) THEN <<acc[1] + 1, acc[2], acc[3]>>
                  ELSE IF t = Str(S_OFF_auto) THEN <<acc[1], acc[2], acc[3] + 1>>
                  ELSE <<acc[1], acc[2] + 1, acc[3]>>)

\* the content written to TRACE_2024.md: per month the day lines and the
\* Summary line
generate_trace_md(df) ==
    LET dts == ParsedDates(df, 1, Len(df.rows)) IN
    [exists |-> TRUE,
     months |-> Tuple([m \in 1..12 |->
        LET idxs == MonthRows(dts, m)
            t    == Tally(df, idxs, 1, <<0, 0, 0>>)
        IN [lines    |-> Tuple([i \in DOMAIN idxs |->
                            <<df.rows[idxs[i]][S_Date], df.rows[idxs[i]][S_Type]>>]),
            vo       |-> t[1],
            pdf      |-> t[2],
            auto_off |-> t[3]]])]

----------------------------------------------------------------------------
(* generate_2024_from_pdfs.py: constants *)

WRITE_START_ROW == 4
WRITE_START_COL == 1

\* line 86: max(50, len(df) + 10)
MIN_CLEAR_ROWS == 50
CLEAR_PADDING  == 10

S_2024_pdf   == <<"_","2","0","2","4",".","p","d","f">>
S_2023_xlsx  == <<" ","2","0","2","3",".","x","l","s","x">>
S_2024_xlsx  == <<" ","2","0","2","4",".","x","l","s","x">>
F_2023_xlsx  == <<"2","0","2","3",".","x","l","s","x">>

\* the characters of the file names, in code point order
CHARS == <<" ", ".", "0","1","2","3","4","5","6","7","8","9">> \o UPPER \o <<"_">> \o LOWER

Ord(ch) == CHOOSE i \in DOMAIN CHARS : CHARS[i] = ch

RECURSIVE StrLess(_, _)
\* a < b for two str
StrLess(a, b) ==
    IF b = <<>> THEN FALSE
    ELSE IF a = <<>> THEN TRUE
    ELSE IF Head(a) # Head(b) THEN Ord(Head(a)) < Ord(Head(b))
    ELSE StrLess(Tail(a), Tail(b))

RECURSIVE sorted(_)
\* sorted() of a set of str
sorted(S) ==
    IF S = {} THEN <<>>
    ELSE LET least == CHOOSE x \in S : \A y \in S \ {x} : StrLess(x, y)
         IN <<least>> \o sorted(S \ {least})

\* glob.glob(DATA_DIR / '*_2024.pdf') on the names of a directory
glob(names) == {f \in names : EndsWith(f, S_2024_pdf)}

RECURSIVE SplitHead(_)
\* name.split('_')[0]
SplitHead(t) ==
    IF t = <<>> \/ Head(t) = "_" THEN <<>> ELSE <<Head(t)>> \o SplitHead(Tail(t))

----------------------------------------------------------------------------
(* generate_2024_from_pdfs.py: extract_tables_from_pdf *)

\* a column label of a frame built without header: an int
IntLabel(n) == [k |-> "int", n |-> n]

\* lines 58-62: the frame of one table t (a non-empty list of rows of equal
\* length); a first row without None becomes the header when there are two
\* rows or more
TableFrame(t) ==
    LET promote == Len(t) >= 2 /\ \A j \in DOMAIN t[1] : ~IsNull(t[1][j])
        cols    == IF promote THEN t[1] ELSE [j \in DOMAIN t[1] |-> IntLabel(j - 1)]
        body    == IF promote THEN Tail(t) ELSE t
    IN [columns |-> Tuple(cols),
        rows    |-> Tuple([i \in DOMAIN body |->
                       Fn([c \in Range(cols) |-> body[i][IndexOf(cols, c)]])])]

RECURSIVE PageFrames(_, _)
\* lines 54-63 from table i of the page on
PageFrames(page_tables, i) ==
    IF i > Len(page_tables) THEN <<>>
    ELSE IF page_tables[i] = <<>> THEN PageFrames(page_tables, i + 1)
    ELSE <<TableFrame(page_tables[i])>> \o PageFrames(page_tables, i + 1)

RECURSIVE DocFrames(_, _)
\* lines 47-63 from page i on: a page whose extract_tables() raises, or gives
\* no table, is skipped
DocFrames(pages, i) ==
    IF i > Len(pages) THEN <<>>
    ELSE IF pages[i].k = "raise" THEN DocFrames(pages, i + 1)
    ELSE PageFrames(pages[i].tables, 1) \o DocFrames(pages, i + 1)

RECURSIVE ConcatColumns(_, _)
\* the columns of pd.concat(tables, sort=False): the union, in order of first
\* appearance
ConcatColumns(frames, i) ==
    IF i = 0 THEN <<>>
    ELSE LET before == ConcatColumns(frames, i - 1)
         IN before \o SelectSeq(frames[i].columns, LAMBDA c : c \notin Range(before))

RECURSIVE ConcatRows(_, _, _)
\* the rows of pd.concat(tables, ignore_index=True): a missing column is NaN
ConcatRows(frames, cols, i) ==
    IF i > Len(frames) THEN <<>>
    ELSE [r \in DOMAIN frames[i].rows |->
            Fn([c \in Range(cols) |->
                  IF c \in DOMAIN frames[i].rows[r] THEN frames[i].rows[r][c] ELSE NaN])]
         \o ConcatRows(frames, cols, i + 1)

\* the empty frame pd.DataFrame()
EmptyFrame == [columns |-> <<>>, rows |-> <<>>]

\* lines 64-75
extract_tables_from_pdf(pages) ==
    LET tables == DocFrames(pages, 1) IN
    IF tables = <<>> THEN EmptyFrame
    ELSE LET cols == ConcatColumns(tables, Len(tables))
             rows == ConcatRows(tables, cols, 1)
             kept == SelectSeq(rows, LAMBDA row : \E c \in Range(cols) : ~IsNull(row[c]))
             named == SelectSeq(cols, LAMBDA c : ~IsNull(c))
         IN [columns |-> named,
             rows    |-> Tuple([i \in DOMAIN kept |-> Fn([c \in Range(named) |-> kept[i][c]])])]

\* df.empty
IsEmptyFrame(df) == df.columns = <<>> \/ df.rows = <<>>

RECURSIVE Decimal(_)
Decimal(n) == IF n < 10 THEN <<DIGITS[n + 1]>> ELSE Decimal(n \div 10) \o <<DIGITS[(n % 10) + 1]>>

\* str(c) of a column label
LabelStr(c) == IF c.k = "int" THEN Str(Decimal(c.n)) ELSE c

\* lines 126-128: drop the columns without any value, then stringify the labels
CleanFrame(df) ==
    LET keep == SelectSeq(df.columns, LAMBDA c : \E i \in DOMAIN df.rows : ~IsNull(df.rows[i][c]))
    IN [columns |-> Tuple([j \in DOMAIN keep |-> LabelStr(keep[j])]),
        rows    |-> Tuple([i \in DOMAIN df.rows |->
                       Fn([c \in {LabelStr(keep[j]) : j \in DOMAIN keep} |->
                             df.rows[i][CHOOSE k \in Range(keep) : LabelStr(k) = c]])])]

----------------------------------------------------------------------------
(* generate_2024_from_pdfs.py: write_df_into_workbook *)

\* the heuristic of the comment at line 85: len(df) + 10 rows are cleared,
\* without the minimum of 50
write_df_into_workbook_NoMin(sheet, df, start_row, start_col) ==
    LET max_rows_to_clear == Len(df.rows) + CLEAR_PADDING
        cleared == (start_row..(start_row + max_rows_to_clear - 1)) \X (1..max_column(sheet))
        written == {<<start_row + i - 1, start_col + j - 1>> :
                       i \in DOMAIN df.rows, j \in DOMAIN df.columns}
        value(p) == df.rows[p[1] - start_row + 1][df.columns[p[2] - start_col + 1]]
        afterClear(p) == IF p \in cleared THEN None ELSE CellValue(sheet, p[1], p[2])
    IN Fn([p \in (DOMAIN sheet) \cup cleared \cup written |->
             IF p \in written /\ value(p) # None THEN value(p) ELSE afterClear(p)])

\* lines 78-98
write_df_into_workbook(sheet, df, start_row, start_col) ==
    LET max_rows_to_clear == Max(MIN_CLEAR_ROWS, Len(df.rows) + CLEAR_PADDING)
        cleared == (start_row..(start_row + max_rows_to_clear - 1)) \X (1..max_column(sheet))
        written == {<<start_row + i - 1, start_col + j - 1>> :
                       i \in DOMAIN df.rows, j \in DOMAIN df.columns}
        value(p) == df.rows[p[1] - start_row + 1][df.columns[p[2] - start_col + 1]]
        afterClear(p) == IF p \in cleared THEN None ELSE CellValue(sheet, p[1], p[2])
    IN Fn([p \in (DOMAIN sheet) \cup cleared \cup written |->
             \* ws.cell(..., value=None) leaves the cell as it is
             IF p \in written /\ value(p) # None THEN value(p) ELSE afterClear(p)])

----------------------------------------------------------------------------
(* Inputs of generate_2024_data.py *)

MaxCsvRows     == 1   \* rows of the csv
MaxPdfRows     == 2   \* table rows in the documents given to parse_pdfs alone
MaxMergeRows   == 1   \* table rows in the documents given to the pipeline
MaxHeaderWidth == 5   \* columns of a spreadsheet of output_2024

S_Flight  == <<"F","l","i","g","h","t">>
S_Giorno  == <<"G","i","o","r","n","o">>
S_DepDATE == <<"D","e","p"," ","D","A","T","E">>
S_AZ100   == <<"A","Z","1","0","0">>
S_RI_pad  == <<" ","R","I"," ">>
S_RI      == <<"R","I">>
S_FR      == <<"F","R">>
S_blank   == <<" "," ">>
S_Data    == <<"D","a","t","a">>
S_Codice  == <<"C","o","d","i","c","e">>
S_old     == <<"o","l","d">>
S_hdr     == <<"h","d","r">>
D_0101    == <<"0","1","/","0","1","/","2","0","2","4">>
D_1503    == <<"1","5","/","0","3","/","2","0","2","4">>
D_1006    == <<"1","0","/","0","6","/","2","0","2","4">>
D_3112    == <<"3","1","/","1","2","/","2","0","2","4">>
D_2023    == <<"3","1","/","1","2","/","2","0","2","3">>
D_junk    == <<"n","/","a">>
F_a_xlsx  == <<"a",".","x","l","s","x">>
F_B_XLSX  == <<"B",".","X","L","S","X">>
F_n_txt   == <<"n",".","t","x","t">>

SeqsUpTo(S, n) == UNION {[1..k -> S] : k \in 0..n}

\* column sets of the csv: a Date column; no date column at all and a Type
\* column; a date column found by lower-casing, not the first column
CsvLayouts == {<<S_Date, S_Flight>>, <<S_Giorno, S_Type>>, <<S_Flight, S_DepDATE>>}

CsvDateCells == {D_1503, D_2023, D_junk}

\* the rows of a csv of the given columns: a date cell in the date column,
\* a flight number in the other
CsvRows(columns) ==
    LET dc == IndexOf(columns, date_col(columns))
    IN {[i \in DOMAIN columns |-> IF i = dc THEN t ELSE S_AZ100] : t \in CsvDateCells}

CsvInputs ==
    {NoFile} \cup
    UNION {{[exists |-> TRUE, columns |-> cols, rows |-> rows] :
              rows \in SeqsUpTo(CsvRows(cols), MaxCsvRows)} : cols \in CsvLayouts}

\* table rows of a monthly document
PdfRowKinds ==
    {<<Str(D_1006), Str(S_RI_pad)>>,    \* date and a code to trim
     <<Str(D_1006), Str(S_FR)>>,
     <<Str(D_1503), Str(S_Volo)>>,      \* a code that reads like the flight label
     <<Str(D_1006), Str(<<>>)>>,        \* empty code
     <<Str(D_1006), Str(S_blank)>>,     \* blank code
     <<Str(D_1006), None>>,             \* no code
     <<Str(D_1006)>>,                   \* no code column
     <<Str(<<>>), Str(S_RI)>>,          \* empty date cell
     <<None, Str(S_RI)>>,
     <<Str(S_Data), Str(S_Codice)>>,    \* a header row: the date does not parse
     <<>>}

MergeRowKinds ==
    {<<Str(D_1006), Str(S_RI_pad)>>,
     <<Str(D_1503), Str(S_Volo)>>,
     <<Str(S_Data), Str(S_Codice)>>}

PdfNames == {PDF_MONTHS[1], PDF_MONTHS[6]}
PdfPages == {1, 2}

\* the directory holding the rows of the sequence placed, each
\* <<file, page, row>>: a file exists when a row is placed in it, and a page
\* without rows has no table
PlacedDir(placed, pages) ==
    LET files == {placed[i][1] : i \in DOMAIN placed}
        rowsOf(f, p) == SelectSeq(placed, LAMBDA x : x[1] = f /\ x[2] = p)
        page(f, p) == IF rowsOf(f, p) = <<>> THEN None
                      ELSE Table([i \in DOMAIN rowsOf(f, p) |-> rowsOf(f, p)[i][3]])
    IN [f \in files |-> [p \in 1..SetMax(pages) |-> page(f, p)]]

PdfDirs(names, pages, kinds, n) ==
    {PlacedDir(placed, pages) : placed \in SeqsUpTo(names \X pages \X kinds, n)}

\* a spreadsheet with a header of w columns, with values in its rows 2, 3,
\* 367 and 368
OldSheet(w) ==
    [p \in {1, 2, 3, 367, 368} \X (1..w) |->
       IF p[1] = 1 THEN Str(S_hdr \o Pad(p[2], 1)) ELSE Str(S_old \o Pad(p[1], 3) \o Pad(p[2], 1))]

\* output_2024: two spreadsheets and a text file
OutDirs ==
    {(F_a_xlsx :> OldSheet(w)) @@ (F_B_XLSX :> OldSheet(MaxHeaderWidth + 1 - w))
       @@ (F_n_txt :> OldSheet(w)) : w \in 1..MaxHeaderWidth}

----------------------------------------------------------------------------
(* generate_2024_data.py: main *)

InitData ==
    /\ pc = "start"
    /\ flights = <<>>
    /\ codes = <<>>
    /\ consolidated = EmptyFrame
    /\ tracefile = NoFile

\* line 100, the csv exists
ParseCsv ==
    /\ pc = "start"
    /\ csv.exists
    /\ flights' = parse_csv(csv)
    /\ pc' = "csv_parsed"
    /\ UNCHANGED <<csv, pdfdir, outdir, codes, consolidated, tracefile>>
    /\ UNCHANGED <<monthVars, writeVars>>

\* line 100, pd.read_csv raises FileNotFoundError: the run ends
ParseCsvMissing ==
    /\ pc = "start"
    /\ ~csv.exists
    /\ pc' = "crashed"
    /\ UNCHANGED <<csv, pdfdir, outdir, flights, codes, consolidated, tracefile>>
    /\ UNCHANGED <<monthVars, writeVars>>

\* line 102
ParsePdfs ==
    /\ pc = "csv_parsed"
    /\ codes' = parse_pdfs(pdfdir)
    /\ pc' = "pdfs_parsed"
    /\ UNCHANGED <<csv, pdfdir, outdir, flights, consolidated, tracefile>>
    /\ UNCHANGED <<monthVars, writeVars>>

\* line 104
BuildConsolidated ==
    /\ pc = "pdfs_parsed"
    /\ consolidated' = build_consolidated(flights, codes)
    /\ pc' = "built"
    /\ UNCHANGED <<csv, pdfdir, outdir, flights, codes, tracefile>>
    /\ UNCHANGED <<monthVars, writeVars>>

\* line 106
OverwriteExcel ==
    /\ pc = "built"
    /\ outdir' = overwrite_excel_files(consolidated, outdir)
    /\ pc' = "excel_done"
    /\ UNCHANGED <<csv, pdfdir, flights, codes, consolidated, tracefile>>
    /\ UNCHANGED <<monthVars, writeVars>>

\* line 108, no row raises
GenerateTrace ==
    /\ pc = "excel_done"
    /\ ~TraceRaises(consolidated)
    /\ tracefile' = generate_trace_md(consolidated)
    /\ pc' = "done"
    /\ UNCHANGED <<csv, pdfdir, outdir, flights, codes, consolidated>>
    /\ UNCHANGED <<monthVars, writeVars>>

\* line 108, strptime raises at line 84, before the file is opened
GenerateTraceRaises ==
    /\ pc = "excel_done"
    /\ TraceRaises(consolidated)
    /\ pc' = "crashed"
    /\ UNCHANGED <<csv, pdfdir, outdir, flights, codes, consolidated, tracefile>>
    /\ UNCHANGED <<monthVars, writeVars>>

NextData ==
    \/ ParseCsv
    \/ ParseCsvMissing
    \/ ParsePdfs
    \/ BuildConsolidated
    \/ OverwriteExcel
    \/ GenerateTrace
    \/ GenerateTraceRaises

\* the script generate_2024_from_pdfs.py and write_df_into_workbook not run
IdleMonths ==
    /\ pc2 = "idle"
    /\ pdf_files = <<>>
    /\ docs = <<>>
    /\ template_dir = <<>>
    /\ output_dir = <<>>
    /\ idx = 1
    /\ created = <<>>
    /\ reported = <<>>
    /\ summary = -1

IdleWrite ==
    /\ w_pc = "idle"
    /\ w_template = <<>>
    /\ w_sheet = <<>>
    /\ w_df = EmptyFrame
    /\ w_row = 1
    /\ w_col = 1

----------------------------------------------------------------------------
(* Inputs of generate_2024_from_pdfs.py *)

MaxPdfs      == 2   \* monthly documents in data_2024
MaxSheetCols == 3   \* columns of the workbook given to write_df_into_workbook
MaxFrameCols == 2   \* columns of the frame given to write_df_into_workbook

F_notes_pdf    == <<"n","o","t","e","s",".","p","d","f">>
F_GENNAIO_2023 == <<"G","E","N","N","A","I","O"," ","2","0","2","3",".","x","l","s","x">>
F_GIUGNO_2024  == <<"G","I","U","G","N","O"," ","2","0","2","4",".","x","l","s","x">>
S_stale        == <<"s","t","a","l","e">>
S_c            == <<"c">>
S_v            == <<"v">>

\* a document pdfplumber cannot open
Corrupt == [k |-> "corrupt"]
Pdf(pages) == [k |-> "pdf", pages |-> pages]
\* page.extract_tables(): a list of tables, or an exception
Page(tables) == [k |-> "page", tables |-> tables]
PageRaises == [k |-> "raise"]

T_hdr  == << <<Str(S_Data), Str(S_Codice)>>, <<Str(D_1006), Str(S_RI)>> >>
T_raw  == << <<Str(D_1006), None>>, <<Str(D_1503), Str(S_FR)>> >>
T_col  == << <<Str(D_1006), None>>, <<Str(D_1503), None>> >>
T_none == << <<None, None>> >>

DocKinds ==
    {Corrupt,
     Pdf(<<>>),
     Pdf(<<PageRaises>>),
     Pdf(<<Page(<<>>)>>),
     Pdf(<<Page(<<T_none>>)>>),
     Pdf(<<Page(<<T_hdr>>)>>),
     Pdf(<<Page(<<T_col, <<>>, T_raw>>)>>),
     Pdf(<<Page(<<T_hdr>>), PageRaises, Page(<<T_raw>>)>>)}

MonthlyNames == {PDF_MONTHS[1], PDF_MONTHS[2], PDF_MONTHS[6]}

\* data_2024: up to MaxPdfs monthly documents, and a pdf that is none
DataDirs ==
    {d @@ (F_notes_pdf :> Pdf(<<>>)) :
       d \in UNION {[S -> DocKinds] : S \in {X \in SUBSET MonthlyNames : Cardinality(X) <= MaxPdfs}}}

\* a template of w columns with a value in every cell of its rows 1..58
TemplateSheet(tag, w) ==
    [p \in (1..58) \X (1..w) |-> Str(tag \o Pad(p[1], 2) \o Pad(p[2], 1))]

\* examples_2023_split: with or without the template of GENNAIO, with or
\* without the generic template
TemplateDirs ==
    {Fn([f \in S |-> IF f = F_2023_xlsx THEN TemplateSheet(S_old, 1)
                      ELSE TemplateSheet(S_hdr, 3)]) :
       S \in SUBSET {F_GENNAIO_2023, F_2023_xlsx}}

\* output_2024: empty, or holding the GIUGNO file of an earlier run
OutputDirs == {<<>>, (F_GIUGNO_2024 :> TemplateSheet(S_stale, 2))}

----------------------------------------------------------------------------
(* generate_2024_from_pdfs.py: process_month_pdf and main *)

month_key(pdf_name) == SplitHead(pdf_name)

template_name(pdf_name) == month_key(pdf_name) \o S_2023_xlsx

out_filename(pdf_name) == month_key(pdf_name) \o S_2024_xlsx

\* lines 105-110: the template chosen, or FileNotFoundError
template_path(dir, pdf_name) ==
    IF template_name(pdf_name) \in DOMAIN dir THEN Str(template_name(pdf_name))
    ELSE IF F_2023_xlsx \in DOMAIN dir THEN Str(F_2023_xlsx)
    ELSE Raise("FileNotFoundError")

\* shutil.copyfile(template_path, out_path)
copyfile(dir, out, sheet) == (out :> sheet) @@ dir

InitMonths ==
    /\ pc2 = "start"
    /\ pdf_files = <<>>
    /\ idx = 1
    /\ created = <<>>
    /\ reported = <<>>
    /\ summary = -1

\* lines 137-140 when there is a monthly pdf
Glob ==
    /\ pc2 = "start"
    /\ glob(DOMAIN docs) # {}
    /\ pdf_files' = sorted(glob(DOMAIN docs))
    /\ pc2' = "loop"
    /\ UNCHANGED <<docs, template_dir, output_dir, idx, created, reported, summary>>
    /\ UNCHANGED <<dataVars, writeVars>>

\* lines 137-140 when there is none: main returns
GlobNone ==
    /\ pc2 = "start"
    /\ glob(DOMAIN docs) = {}
    /\ pc2' = "returned"
    /\ UNCHANGED <<pdf_files, docs, template_dir, output_dir, idx, created, reported, summary>>
    /\ UNCHANGED <<dataVars, writeVars>>

\* lines 143-148 without the try: the exception of line 110 ends the loop
ProcessNoTemplate_Abort ==
    /\ pc2 = "loop" /\ idx <= Len(pdf_files)
    /\ template_path(template_dir, pdf_files[idx]).k = "raise"
    /\ reported' = Append(reported, pdf_files[idx])
    /\ idx' = Len(pdf_files) + 1
    /\ UNCHANGED <<pc2, pdf_files, docs, template_dir, output_dir, created, summary>>
    /\ UNCHANGED <<dataVars, writeVars>>

\* one iteration of lines 143-148: process_month_pdf raises at line 110
ProcessNoTemplate ==
    /\ pc2 = "loop" /\ idx <= Len(pdf_files)
    /\ template_path(template_dir, pdf_files[idx]).k = "raise"
    /\ reported' = Append(reported, pdf_files[idx])
    /\ idx' = idx + 1
    /\ UNCHANGED <<pc2, pdf_files, docs, template_dir, output_dir, created, summary>>
    /\ UNCHANGED <<dataVars, writeVars>>

\* one iteration of lines 143-148: the template is copied, then pdfplumber.open
\* raises at line 46
ProcessExtractRaises ==
    /\ pc2 = "loop" /\ idx <= Len(pdf_files)
    /\ template_path(template_dir, pdf_files[idx]).k = "str"
    /\ docs[pdf_files[idx]].k = "corrupt"
    /\ output_dir' = copyfile(output_dir, out_filename(pdf_files[idx]),
                              template_dir[template_path(template_dir, pdf_files[idx]).s])
    /\ reported' = Append(reported, pdf_files[idx])
    /\ idx' = idx + 1
    /\ UNCHANGED <<pc2, pdf_files, docs, template_dir, created, summary>>
    /\ UNCHANGED <<dataVars, writeVars>>

\* one iteration of lines 143-148 without the return of line 123: the empty
\* frame is written into the copy
ProcessNoTable_Writes ==
    /\ pc2 = "loop" /\ idx <= Len(pdf_files)
    /\ template_path(template_dir, pdf_files[idx]).k = "str"
    /\ docs[pdf_files[idx]].k = "pdf"
    /\ IsEmptyFrame(extract_tables_from_pdf(docs[pdf_files[idx]].pages)) = TRUE
    /\ output_dir' = copyfile(output_dir, out_filename(pdf_files[idx]),
           write_df_into_workbook(
               template_dir[template_path(template_dir, pdf_files[idx]).s],
               EmptyFrame, WRITE_START_ROW, WRITE_START_COL))
    /\ created' = Append(created, out_filename(pdf_files[idx]))
    /\ idx' = idx + 1
    /\ UNCHANGED <<pc2, pdf_files, docs, template_dir, reported, summary>>
    /\ UNCHANGED <<dataVars, writeVars>>

\* one iteration of lines 143-148: the template is copied and df.empty holds
ProcessNoTable ==
    /\ pc2 = "loop" /\ idx <= Len(pdf_files)
    /\ template_path(template_dir, pdf_files[idx]).k = "str"
    /\ docs[pdf_files[idx]].k = "pdf"
    /\ IsEmptyFrame(extract_tables_from_pdf(docs[pdf_files[idx]].pages)) = TRUE
    /\ output_dir' = copyfile(output_dir, out_filename(pdf_files[idx]),
                              template_dir[template_path(template_dir, pdf_files[idx]).s])
    /\ created' = Append(created, out_filename(pdf_files[idx]))
    /\ idx' = idx + 1
    /\ UNCHANGED <<pc2, pdf_files, docs, template_dir, reported, summary>>
    /\ UNCHANGED <<dataVars, writeVars>>

\* one iteration of lines 143-148: the template is copied and the table
\* written into the copy
ProcessWrite ==
    /\ pc2 = "loop" /\ idx <= Len(pdf_files)
    /\ template_path(template_dir, pdf_files[idx]).k = "str"
    /\ docs[pdf_files[idx]].k = "pdf"
    /\ IsEmptyFrame(extract_tables_from_pdf(docs[pdf_files[idx]].pages)) = FALSE
    /\ output_dir' = copyfile(output_dir, out_filename(pdf_files[idx]),
           write_df_into_workbook(
               template_dir[template_path(template_dir, pdf_files[idx]).s],
               CleanFrame(extract_tables_from_pdf(docs[pdf_files[idx]].pages)),
               WRITE_START_ROW, WRITE_START_COL))
    /\ created' = Append(created, out_filename(pdf_files[idx]))
    /\ idx' = idx + 1
    /\ UNCHANGED <<pc2, pdf_files, docs, template_dir, reported, summary>>
    /\ UNCHANGED <<dataVars, writeVars>>

\* line 150
Finish ==
    /\ pc2 = "loop" /\ idx > Len(pdf_files)
    /\ summary' = Len(created)
    /\ pc2' = "done"
    /\ UNCHANGED <<pdf_files, docs, template_dir, output_dir, idx, created, reported>>
    /\ UNCHANGED <<dataVars, writeVars>>

NextMonths ==
    \/ Glob
    \/ GlobNone
    \/ ProcessNoTemplate
    \/ ProcessExtractRaises
    \/ ProcessNoTable
    \/ ProcessWrite
    \/ Finish

----------------------------------------------------------------------------
(* write_df_into_workbook on its own *)

\* a frame of r rows and c columns; with gap, its first value is None
Frame(r, c, gap) ==
    LET cols == [j \in 1..c |-> Str(S_c \o Pad(j, 1))]
    IN [columns |-> cols,
        rows    |-> [i \in 1..r |->
                       Fn([x \in Range(cols) |->
                             IF gap /\ i = 1 /\ x = cols[1] THEN None
                             ELSE Str(S_v \o Pad(i, 2) \o x.s)])]]

\* below, at and above the length from which len(df) + 10 exceeds 50
FrameRowCounts == {0, 1, MIN_CLEAR_ROWS - CLEAR_PADDING, MIN_CLEAR_ROWS - CLEAR_PADDING + 1}

WriteCall ==
    /\ w_pc = "call"
    /\ w_sheet' = write_df_into_workbook(w_sheet, w_df, w_row, w_col)
    /\ w_pc' = "saved"
    /\ UNCHANGED <<w_template, w_df, w_row, w_col>>
    /\ UNCHANGED <<dataVars, monthVars>>

NextWrite == WriteCall

\* generate_2024_data.py not run
IdleData ==
    /\ pc = "idle"
    /\ csv = NoFile
    /\ pdfdir = <<>>
    /\ outdir = <<>>
    /\ flights = <<>>
    /\ codes = <<>>
    /\ consolidated = EmptyFrame
    /\ tracefile = NoFile

----------------------------------------------------------------------------
(* Specifications *)

\* an empty directory
NoFiles == <<>>

\* generate_2024_data.py on a csv and a directory of documents
Init ==
    /\ InitData
    /\ csv \in CsvInputs
    /\ pdfdir \in PdfDirs({PDF_MONTHS[6]}, {1}, MergeRowKinds, MaxMergeRows)
    /\ outdir = (F_a_xlsx :> OldSheet(1))
    /\ IdleMonths
    /\ IdleWrite

Next == NextData

Spec == Init /\ [][Next]_vars

\* generate_2024_data.py on a csv and a directory of spreadsheets
InitExcel ==
    /\ InitData
    /\ csv \in CsvInputs
    /\ pdfdir = NoFiles
    /\ outdir \in OutDirs
    /\ IdleMonths
    /\ IdleWrite

SpecExcel == InitExcel /\ [][NextData]_vars

\* parse_pdfs on a directory of documents, after parse_csv of a csv without
\* rows
InitParse ==
    /\ pc = "csv_parsed"
    /\ csv = [exists |-> TRUE, columns |-> <<S_Date, S_Flight>>, rows |-> <<>>]
    /\ flights = parse_csv(csv)
    /\ codes = <<>>
    /\ consolidated = EmptyFrame
    /\ tracefile = NoFile
    /\ pdfdir \in PdfDirs(PdfNames, PdfPages, PdfRowKinds, MaxPdfRows)
    /\ outdir = NoFiles
    /\ IdleMonths
    /\ IdleWrite

SpecParse == InitParse /\ [][ParsePdfs]_vars

\* generate_2024_from_pdfs.py
InitPerMonth ==
    /\ InitMonths
    /\ docs \in DataDirs
    /\ template_dir \in TemplateDirs
    /\ output_dir \in OutputDirs
    /\ IdleData
    /\ IdleWrite

SpecMonths == InitPerMonth /\ [][NextMonths]_vars

\* write_df_into_workbook on a workbook, a frame and an origin
InitWrite ==
    /\ w_pc = "call"
    /\ w_template \in {TemplateSheet(S_old, w) : w \in 1..MaxSheetCols}
    /\ w_sheet = w_template
    /\ w_df \in {Frame(r, c, gap) : r \in FrameRowCounts, c \in 1..MaxFrameCols,
                                     gap \in BOOLEAN}
    /\ w_row \in {1, WRITE_START_ROW}
    /\ w_col \in {WRITE_START_COL, 2}
    /\ IdleData
    /\ IdleMonths

SpecWrite == InitWrite /\ [][NextWrite]_vars

----------------------------------------------------------------------------
(* The calendar, stated without the date arithmetic of the program *)

CalLeap(y) == (y % 4 = 0 /\ y % 100 # 0) \/ y % 400 = 0

CalDaysIn(y, m) ==
    CASE m \in {4, 6, 9, 11} -> 30
      [] m = 2 -> IF CalLeap(y) THEN 29 ELSE 28
      [] OTHER -> 31

CalDaysInYear(y) == IF CalLeap(y) THEN 366 ELSE 365

\* the day after d
CalNext(d) ==
    IF d.d < CalDaysIn(d.y, d.m) THEN Date(d.y, d.m, d.d + 1)
    ELSE IF d.m < 12 THEN Date(d.y, d.m + 1, 1)
    ELSE Date(d.y + 1, 1, 1)

\* the dates of year y
CalDates(y) == {Date(y, m, d) : m \in 1..12, d \in 1..28}
                 \cup UNION {{Date(y, m, d) : d \in 29..CalDaysIn(y, m)} : m \in 1..12}

\* the position of d in its year, from 1
CalDayOfYear(d) ==
    LET before[m \in 1..12] == IF m = 1 THEN 0 ELSE before[m - 1] + CalDaysIn(d.y, m - 1)
    IN before[d.m] + d.d

\* YYYY-MM-DD
CalIso(d) ==
    <<DIGITS[((d.y \div 1000) % 10) + 1], DIGITS[((d.y \div 100) % 10) + 1],
      DIGITS[((d.y \div 10) % 10) + 1], DIGITS[(d.y % 10) + 1], "-",
      DIGITS[(d.m \div 10) + 1], DIGITS[(d.m % 10) + 1], "-",
      DIGITS[(d.d \div 10) + 1], DIGITS[(d.d % 10) + 1]>>

\* days is year y from 1 January to 31 December: every date once, ascending
IsYearCalendar(days, y) ==
    /\ Len(days) = CalDaysInYear(y)
    /\ days[1] = Date(y, 1, 1)
    /\ days[Len(days)] = Date(y, 12, 31)
    /\ \A i \in 1..(Len(days) - 1) : days[i + 1] = CalNext(days[i])

\* the years the generator is examined on: leap, common, and both kinds of
\* century year
Years == {1900, 2000, 2023, TargetYear, 2100}

\* row denotes day d: its Date is d, as a date or as ISO text
DenotesDay(row, d) == row[S_Date] = d \/ row[S_Date] = Str(CalIso(d))

\* build_consolidated has run
Built ==
    \/ pc \in {"built", "excel_done", "done"}
    \/ pc = "crashed" /\ csv.exists

\* generate_trace_md has run
TraceRan ==
    \/ pc = "done"
    \/ pc = "crashed" /\ csv.exists

\* the days of the target year that have a flight record, a duty code
FlightDays == (DOMAIN flights) \cap CalDates(TargetYear)
CodeDays   == (DOMAIN codes) \cap CalDates(TargetYear)

----------------------------------------------------------------------------
(* Claims on generate_2024_data.py *)

\* C1: date_range(y) yields every calendar date of year y from 1 January to
\* 31 December exactly once, in ascending order, with no gap and no duplicate
\* (365 dates in a common year, 366 in a leap year), which is examined where
\* build_consolidated is about to call it; the merged timeline has exactly
\* one entry per day of the target year, in that order, whatever the two
\* indexes hold.
C1_TimelineIsCalendar ==
    /\ pc = "pdfs_parsed" => \A y \in Years : IsYearCalendar(date_range(y), y)
    /\ Built =>
         /\ Len(consolidated.rows) = CalDaysInYear(TargetYear)
         /\ \A d \in CalDates(TargetYear) :
                DenotesDay(consolidated.rows[CalDayOfYear(d)], d)

C1_Witness ==
    /\ pc = "built"
    /\ FlightDays # {}
    /\ CodeDays # {}
    /\ Len(consolidated.rows) = 366

\* C2: every day present in the tabular index has an entry whose Type is
\* the flight label "Volo" and which carries every field of the tabular
\* row, also when the source has a column named Type or Date of its own.
C2_FlightEntries ==
    Built =>
        \A day \in FlightDays :
            LET row == consolidated.rows[CalDayOfYear(day)] IN
            /\ row[S_Type] = Str(S_Volo)
            /\ \A c \in Range(flights[day].index) \ {S_Date, S_Type} :
                   /\ c \in Range(consolidated.columns)
                   /\ row[c] = flights[day].data[c]

\* C3: the Date of every timeline entry, flight-record entries included, is
\* the ISO YYYY-MM-DD text of its day, so that the summary renderer parses it
\* and the summary is written.
C3_DateIsIsoText ==
    /\ Built =>
         \A d \in CalDates(TargetYear) :
            consolidated.rows[CalDayOfYear(d)][S_Date] = Str(CalIso(d))
    /\ TraceRan => pc = "done" /\ tracefile.exists

\* C4: for every day of the target year absent from the tabular index, the
\* merged entry has Type equal to the code stored for that day in the codes
\* index when there is one, and "OFF (auto)" otherwise; the entry has no
\* field other than Date and Type.
C4_NonFlightEntries ==
    Built =>
        \A day \in CalDates(TargetYear) \ DOMAIN flights :
            LET row == consolidated.rows[CalDayOfYear(day)] IN
            /\ row[S_Date] = Str(CalIso(day))
            /\ row[S_Type] = IF day \in DOMAIN codes THEN Str(codes[day])
                             ELSE Str(S_OFF_auto)
            /\ \A c \in Range(consolidated.columns) \ {S_Date, S_Type} : row[c] = NaN

C4_Witness ==
    /\ pc = "built"
    /\ FlightDays # {}
    /\ \E day \in CodeDays \ FlightDays :
          consolidated.rows[CalDayOfYear(day)][S_Type] = Str(codes[day])
    /\ \E day \in CalDates(TargetYear) \ (FlightDays \cup CodeDays) :
          consolidated.rows[CalDayOfYear(day)][S_Type] = Str(S_OFF_auto)
    /\ Len(consolidated.columns) > 2

\* C5: the summary written by generate_trace_md gives, for each month, the
\* number of flight-record days, of duty-code days and of default-off days of
\* that month, the three adding up to the days of the month, whatever the CSV
\* rows and the duty-code texts.
C5_MonthlyTallies ==
    tracefile.exists =>
        \A m \in 1..12 :
            LET inMonth(S) == Cardinality({d \in S : d.m = m})
                t == tracefile.months[m]
            IN /\ Len(t.lines) = CalDaysIn(TargetYear, m)
               /\ t.vo = inMonth(FlightDays)
               /\ t.pdf = inMonth(CodeDays \ FlightDays)
               /\ t.auto_off = inMonth(CalDates(TargetYear) \ (FlightDays \cup CodeDays))
               /\ t.vo + t.pdf + t.auto_off = CalDaysIn(TargetYear, m)

----------------------------------------------------------------------------
(* Claims on parse_pdfs *)

\* the rows of the documents of a directory, as <<file, page, row>> positions;
\* file is the position of the name in the January-to-December list
Visits(dir) ==
    {v \in (DOMAIN PDF_MONTHS) \X (1..SetMax(PdfPages)) \X (1..(MaxPdfRows + 1)) :
        /\ PDF_MONTHS[v[1]] \in DOMAIN dir
        /\ v[2] \in DOMAIN dir[PDF_MONTHS[v[1]]]
        /\ dir[PDF_MONTHS[v[1]]][v[2]].k = "table"
        /\ v[3] \in DOMAIN dir[PDF_MONTHS[v[1]]][v[2]].rows}

RowAt(dir, v) == dir[PDF_MONTHS[v[1]]][v[2]].rows[v[3]]

\* v is visited before w
VisitedBefore(v, w) ==
    \/ v[1] < w[1]
    \/ v[1] = w[1] /\ v[2] < w[2]
    \/ v[1] = w[1] /\ v[2] = w[2] /\ v[3] < w[3]

\* t without the spaces at its two ends
Trimmed(t) ==
    CHOOSE c \in {SubSeq(t, a, b) : a \in 1..(Len(t) + 1), b \in 0..Len(t)} :
        /\ c = <<>> \/ (Head(c) # " " /\ c[Len(c)] # " ")
        /\ \E a \in 1..(Len(t) + 1), b \in 0..Len(t) :
              /\ c = SubSeq(t, a, b)
              /\ \A i \in (1..(a - 1)) \cup ((b + 1)..Len(t)) : t[i] = " "

\* the date of a row: its first cell when that is a text that reads as a date
RowDate(row) ==
    IF row # <<>> /\ IsStr(row[1]) /\ row[1].s # <<>> THEN to_datetime(row[1]) ELSE NaT

\* the code of a row: its second cell, trimmed; empty when there is none
RowCode(row) ==
    IF Len(row) > 1 /\ IsStr(row[2]) THEN Trimmed(row[2].s) ELSE <<>>

\* the rows that have the date d and a code
Qualifying(dir, d) ==
    {v \in Visits(dir) : RowDate(RowAt(dir, v)) = d /\ RowCode(RowAt(dir, v)) # <<>>}

\* C9: parse_pdfs visits the documents in January-to-December order, the
\* pages in page order and the rows in row order; its index maps each date to
\* the trimmed code of the last visited row that has that date and a
\* non-empty code; a date without such a row has no entry (rows with an empty
\* or missing code or an empty date cell add and overwrite nothing); files
\* that are missing are skipped.
C9_LastCodeWins ==
    pc = "pdfs_parsed" =>
        \A d \in {k \in DOMAIN codes : IsDate(k)}
                   \cup {to_datetime(Str(t)) : t \in {D_0101, D_1503, D_1006}} :
            LET Q == Qualifying(pdfdir, d) IN
            IF Q = {} THEN d \notin DOMAIN codes
            ELSE /\ d \in DOMAIN codes
                 /\ codes[d] = RowCode(RowAt(pdfdir,
                       CHOOSE v \in Q : \A w \in Q \ {v} : VisitedBefore(w, v)))

C9_Witness ==
    /\ pc = "pdfs_parsed"
    /\ PDF_MONTHS[1] \in DOMAIN pdfdir
    /\ PDF_MONTHS[2] \notin DOMAIN pdfdir
    /\ PDF_MONTHS[6] \in DOMAIN pdfdir
    /\ \E d \in DOMAIN codes :
          \E v, w \in Qualifying(pdfdir, d) :
             /\ v[1] < w[1]
             /\ RowCode(RowAt(pdfdir, v)) # RowCode(RowAt(pdfdir, w))
             /\ RowAt(pdfdir, v)[2].s # RowCode(RowAt(pdfdir, v))
             /\ codes[d] = RowCode(RowAt(pdfdir, w))

----------------------------------------------------------------------------
(* Claims on generate_2024_from_pdfs.py *)

\* the monthly documents of data_2024
Monthly == {f \in DOMAIN docs : Len(f) >= 9 /\ SubSeq(f, Len(f) - 8, Len(f)) = S_2024_pdf}

\* the month of a monthly document: its name up to the first underscore
MonthOf(f) ==
    SubSeq(f, 1, (CHOOSE i \in DOMAIN f : f[i] = "_" /\ \A j \in 1..(i - 1) : f[j] # "_") - 1)

OwnTemplate(f) == MonthOf(f) \o <<" ">> \o F_2023_xlsx
OutputOf(f)    == MonthOf(f) \o <<" ", "2", "0", "2", "4", ".", "x", "l", "s", "x">>

HasTemplate(f) == OwnTemplate(f) \in DOMAIN template_dir \/ F_2023_xlsx \in DOMAIN template_dir

\* the template of a month: its own, else the generic one
ChosenTemplate(f) ==
    IF OwnTemplate(f) \in DOMAIN template_dir THEN template_dir[OwnTemplate(f)]
    ELSE template_dir[F_2023_xlsx]

\* processing the document ends with an error
Fails(f) == ~HasTemplate(f) \/ docs[f].k = "corrupt"

\* no table comes out of the document
NoTableExtracted(f) ==
    /\ docs[f].k = "pdf"
    /\ \A p \in DOMAIN docs[f].pages :
          \/ docs[f].pages[p].k = "raise"
          \/ \A t \in DOMAIN docs[f].pages[p].tables : docs[f].pages[p].tables[t] = <<>>

\* the documents processed so far, in order
Processed == SubSeq(pdf_files, 1, idx - 1)

C7_Batch ==
    pc2 \in {"loop", "done"} =>
        /\ Range(pdf_files) = Monthly
        /\ Len(pdf_files) = Cardinality(Monthly)
        /\ \A i \in 1..(Len(pdf_files) - 1) : StrLess(pdf_files[i], pdf_files[i + 1])
        /\ idx \in 1..(Len(pdf_files) + 1)
        /\ reported = SelectSeq(Processed, Fails)
        /\ created = [i \in DOMAIN SelectSeq(Processed, LAMBDA f : ~Fails(f)) |->
                         OutputOf(SelectSeq(Processed, LAMBDA f : ~Fails(f))[i])]
        /\ pc2 = "done" =>
              /\ idx = Len(pdf_files) + 1
              /\ summary = Cardinality({f \in Monthly : ~Fails(f)})

\* C7: in per-month mode a failure on one monthly document (a missing
\* template with no generic fallback, a document that cannot be opened) is
\* reported for that document only: the documents are processed one after
\* the other in sorted order, whatever failed before; the final count is the
\* number of months processed without error; the step of a month whose
\* template is missing leaves the output directory as it was.
C7_FailureIsLocal ==
    /\ []C7_Batch
    /\ [][(pc2 = "loop" /\ idx' = idx + 1 /\ ~HasTemplate(pdf_files[idx]))
             => output_dir' = output_dir]_vars

C7_Witness ==
    /\ pc2 = "done"
    /\ summary = 1
    /\ \E i, j \in DOMAIN pdf_files :
          /\ i < j
          /\ ~HasTemplate(pdf_files[i])
          /\ ~Fails(pdf_files[j])
          /\ OutputOf(pdf_files[i]) \notin DOMAIN output_dir
          /\ OutputOf(pdf_files[j]) \in DOMAIN output_dir

\* C8: when no table is extracted from a month's document, the output file
\* of the month exists with the content of the chosen template (no cell
\* cleared, none written), the month is among the files produced and in the
\* final count, and no error is reported for it.
C8_NoTableKeepsTemplate ==
    pc2 \in {"loop", "done"} =>
        /\ \A i \in 1..(idx - 1) :
              LET f == pdf_files[i] IN
              (HasTemplate(f) /\ NoTableExtracted(f)) =>
                  /\ OutputOf(f) \in DOMAIN output_dir
                  /\ output_dir[OutputOf(f)] = ChosenTemplate(f)
                  /\ OutputOf(f) \in Range(created)
                  /\ f \notin Range(reported)
        /\ pc2 = "done" => summary = Len(created)

C8_Witness ==
    /\ pc2 = "done"
    /\ summary >= 1
    /\ \E i \in DOMAIN pdf_files :
          /\ HasTemplate(pdf_files[i])
          /\ NoTableExtracted(pdf_files[i])
          /\ docs[pdf_files[i]].pages # <<>>
          /\ OutputOf(pdf_files[i]) = F_GIUGNO_2024
          /\ output_dir[F_GIUGNO_2024] = template_dir[F_2023_xlsx]

----------------------------------------------------------------------------
(* Claims on write_df_into_workbook *)

====
